---------------------------- MODULE Spec2Model ----------------------------
(***************************************************************************)
(* A model of MaxQuant_Postprocessing_Functions.py: the cleaning,          *)
(* grouping, normalisation, imputation and ANOVA steps of mq_pipeline.     *)
(*                                                                         *)
(* A floating point number is an extended rational <<n, d>>: d > 0 and     *)
(* gcd(n, d) = 1 for a finite value, <<1, 0>> for +inf, <<-1, 0>> for -inf *)
(* and <<0, 0>> for NaN (pandas' missing value).  Arithmetic is exact:     *)
(* rounding and the sign of zero are not modelled.                         *)
(*                                                                         *)
(* A string (a column name, a protein identity, a group name) is a         *)
(* sequence of tokens; "contains" is contiguous sub-sequence search.       *)
(*                                                                         *)
(* A dataframe is [columns, index_type, rows].  columns are the names of   *)
(* the numeric columns; for iBAQ_df the identity column 'Majority protein  *)
(* IDs' is column 0 and columns is the region df.iloc[:, 1:].  A row is    *)
(* [index, id, cells]: its index label, its identity and its numeric       *)
(* cells.  The loaded table's rows also carry the three flag columns.      *)
(***************************************************************************)
EXTENDS Integers, Sequences, FiniteSets, TLC

VARIABLES pc, file, df, groups, iBAQ_df, organ_columns, organ_counts, boxplots,
          imputed_iBAQ_df, anova_calls, pass_anova_df, pval, returned

vars == <<pc, file, df, groups, iBAQ_df, organ_columns, organ_counts, boxplots,
          imputed_iBAQ_df, anova_calls, pass_anova_df, pval, returned>>

-----------------------------------------------------------------------------
(* Bounds of the model.                                                    *)

\* most rows of a table whose flags and identities vary
MaxRowsQ == 2
\* most rows of a table whose detection pattern varies
MaxRowsD == 1
\* most rows of a table whose abundances vary
MaxRowsN == 2
\* most rows of a matrix handed to filter_proteins_by_anova on its own
MaxRowsA == 2

-----------------------------------------------------------------------------
(* Sequences.                                                              *)

Range(s) == {s[i] : i \in DOMAIN s}

RECURSIVE Flatten(_)
Flatten(ss) == IF ss = <<>> THEN <<>> ELSE Head(ss) \o Flatten(Tail(ss))

\* s[lo:hi], the python slice (0-based, hi exclusive, clipped to the length)
Slice(s, lo, hi) ==
    LET h == IF hi < Len(s) THEN hi ELSE Len(s)
    IN  IF lo >= h THEN <<>> ELSE SubSeq(s, lo + 1, h)

\* the sub-sequence of s at the positions where keep holds, in order
RECURSIVE Keep(_, _)
Keep(s, keep) ==
    IF s = <<>> THEN <<>>
    ELSE (IF Head(keep) THEN <<Head(s)>> ELSE <<>>) \o Keep(Tail(s), Tail(keep))

\* re.search of a literal: sub occurs in s
Contains(s, sub) ==
    \E i \in 0..(Len(s) - Len(sub)) : SubSeq(s, i + 1, i + Len(sub)) = sub

-----------------------------------------------------------------------------
(* Floating point values.                                                  *)

NaN == <<0, 0>>
PosInf == <<1, 0>>
NegInf == <<-1, 0>>

Abs(n) == IF n < 0 THEN -n ELSE n
Sign(n) == IF n < 0 THEN -1 ELSE IF n > 0 THEN 1 ELSE 0

RECURSIVE GCD(_, _)
GCD(a, b) == IF b = 0 THEN a ELSE GCD(b, a % b)

Norm(n, d) ==
    IF d = 0 THEN <<Sign(n), 0>>
    ELSE LET g == GCD(Abs(n), Abs(d))
             s == IF d < 0 THEN -1 ELSE 1
         IN  <<(s * n) \div g, (s * d) \div g>>

Float(n) == <<n, 1>>
isnan(v) == v = NaN
isinf(v) == v = PosInf \/ v = NegInf

add(a, b) ==
    IF a[2] = 0 /\ b[2] = 0 THEN (IF a = b THEN a ELSE NaN)
    ELSE Norm(a[1] * b[2] + b[1] * a[2], a[2] * b[2])
neg(a) == <<-a[1], a[2]>>
sub(a, b) == add(a, neg(b))
mul(a, b) == Norm(a[1] * b[1], a[2] * b[2])
recip(a) == IF a[1] < 0 THEN <<-a[2], -a[1]>> ELSE <<a[2], a[1]>>
\* x / 0 is +-inf, 0 / 0 and inf / inf are NaN
truediv(a, b) == mul(a, recip(b))

\* comparisons with NaN are False
lt(a, b) ==
    /\ ~isnan(a) /\ ~isnan(b)
    /\ IF a[2] = 0 /\ b[2] = 0 THEN a[1] < b[1] ELSE a[1] * b[2] < b[1] * a[2]
le(a, b) ==
    /\ ~isnan(a) /\ ~isnan(b)
    /\ IF a[2] = 0 /\ b[2] = 0 THEN a[1] <= b[1] ELSE a[1] * b[2] <= b[1] * a[2]
gt(a, b) == lt(b, a)
ge(a, b) == le(b, a)

\* s[lo] + ... + s[hi], by halves
RECURSIVE fsum_range(_, _, _)
fsum_range(s, lo, hi) ==
    IF lo > hi THEN Float(0)
    ELSE IF lo = hi THEN s[lo]
    ELSE LET mid == (lo + hi) \div 2
         IN  add(fsum_range(s, lo, mid), fsum_range(s, mid + 1, hi))

fsum(s) == fsum_range(s, 1, Len(s))

\* the values of s that are not missing (skipna)
dropna(s) == SelectSeq(s, LAMBDA v : ~isnan(v))

\* the k-th smallest value of a sequence without NaN
kth(s, k) ==
    CHOOSE x \in Range(s) :
        /\ Cardinality({i \in DOMAIN s : lt(s[i], x)}) < k
        /\ k <= Cardinality({i \in DOMAIN s : le(s[i], x)})

\* Series.median(): the median of the values that are not missing
median(s) ==
    LET v == dropna(s)
        n == Len(v)
    IN  IF n = 0 THEN NaN
        ELSE IF n % 2 = 1 THEN kth(v, (n + 1) \div 2)
        ELSE truediv(add(kth(v, n \div 2), kth(v, n \div 2 + 1)), Float(2))

\* Series.min(): the least value that is not missing
nanmin(s) ==
    LET v == dropna(s)
    IN  IF v = <<>> THEN NaN ELSE kth(v, 1)

RECURSIVE ilog2(_)
ilog2(n) == IF n <= 1 THEN 0 ELSE 1 + ilog2(n \div 2)

\* np.log2, exact on the powers of two the tables hold
log2(v) ==
    IF isnan(v) \/ v[1] < 0 THEN NaN
    ELSE IF v = PosInf THEN PosInf
    ELSE IF v[1] = 0 THEN NegInf
    ELSE Float(ilog2(v[1]) - ilog2(v[2]))

-----------------------------------------------------------------------------
(* Dataframes.                                                             *)

IDCOL == <<"Majority protein IDs">>
IBAQ == "iBAQ "
\* a missing string cell (read_csv gives NaN for an empty cell)
NA == "<NA>"
MissingID == <<NA>>

EmptyDF == [columns |-> <<>>, index_type |-> "Int64Index", rows |-> <<>>]
EmptyDict == [g \in {} |-> <<>>]

\* df[mask]: the rows whose mask entry is True, in order, labels kept (the
\* RangeIndex of a freshly read table becomes an Int64Index)
mask_rows(d, mask) ==
    [columns |-> d.columns,
     index_type |-> IF d.index_type = "RangeIndex" THEN "Int64Index"
                    ELSE d.index_type,
     rows |-> Keep(d.rows, mask)]

\* the position of the column called name among the numeric columns
col_index(d, name) == CHOOSE j \in DOMAIN d.columns : d.columns[j] = name

\* the cells of row i in the columns called cols
row_values(d, i, cols) ==
    [k \in DOMAIN cols |-> d.rows[i].cells[col_index(d, cols[k])]]

\* the cells of numeric column j, top to bottom
column_values(d, j) == [i \in DOMAIN d.rows |-> d.rows[i].cells[j]]

\* d with the numeric cells of row i replaced by cells[i]
with_cells(d, cells) ==
    [d EXCEPT !.rows =
        [i \in DOMAIN d.rows |-> [d.rows[i] EXCEPT !.cells = cells[i]]]]

\* clean_weakly_identified with the three tests joined by | instead of &
clean_weakly_identified_or(d) ==
    mask_rows(d, [i \in DOMAIN d.rows |->
        \/ d.rows[i].site # "+"
        \/ d.rows[i].Reverse # "+"
        \/ d.rows[i].contaminant # "+"])

(* clean_weakly_identified: rows with '+' in a flag column are dropped     *)
clean_weakly_identified(d) ==
    mask_rows(d, [i \in DOMAIN d.rows |->
        /\ d.rows[i].site # "+"
        /\ d.rows[i].Reverse # "+"
        /\ d.rows[i].contaminant # "+"])

\* Series.str.contains(pat): NaN for a missing string
str_contains(s, pat) ==
    IF s = MissingID THEN "NaN"
    ELSE IF Contains(s, <<pat>>) THEN "True" ELSE "False"

(* remove_dup_proteinIDs: rows whose identity contains ';' are dropped     *)
remove_dup_proteinIDs(d) ==
    mask_rows(d, [i \in DOMAIN d.rows |->
        str_contains(d.rows[i].id, ";") = "False"])

(* slice_by_column, feature 'protein': DataFrame.filter(regex) keeps the   *)
(* columns whose name the pattern col_name.*|Majority protein IDs is       *)
(* found in; the three flag columns match neither alternative.             *)
(* mq_pipeline calls it with 'protein' only (line 524); the else branch,   *)
(* which looks for a 'Sequence' column, is not modelled.                   *)
slice_by_column(d, feature, col_name) ==
    LET keep == [j \in DOMAIN d.columns |-> Contains(d.columns[j], <<col_name>>)]
    IN  [columns |-> Keep(d.columns, keep),
         index_type |-> d.index_type,
         rows |-> [i \in DOMAIN d.rows |->
                     [index |-> d.rows[i].index,
                      id |-> d.rows[i].id,
                      cells |-> Keep(d.rows[i].cells, keep)]]]

\* list(filter(regex.search, df_cols)) for the pattern .*group
matching_columns(d, group) ==
    SelectSeq(<<IDCOL>> \o d.columns, LAMBDA c : Contains(c, group))

\* (df[cols] > 0).sum(1) at row i
count_positive(d, i, cols) ==
    LET v == row_values(d, i, cols)
    IN  Cardinality({k \in DOMAIN v : gt(v[k], Float(0))})

\* organ_columns after the loop of filter_low_observed
filled_columns(d, grps, columns) ==
    [g \in DOMAIN columns \cup Range(grps) |->
        IF g \in Range(grps) THEN matching_columns(d, g) ELSE columns[g]]

\* organ_counts after the loop of filter_low_observed
filled_counts(d, grps, columns, counts) ==
    [g \in DOMAIN counts \cup Range(grps) |->
        IF g \in Range(grps)
        THEN [i \in DOMAIN d.rows |->
                count_positive(d, i, filled_columns(d, grps, columns)[g])]
        ELSE counts[g]]

\* twice the value `threshold` holds when the loop has ended: the variable
\* is assigned in every iteration and read after the loop
threshold_x2(d, grps) == Len(matching_columns(d, grps[Len(grps)]))

(* filter_low_observed: the dataframe it returns                           *)
filter_low_observed(d, grps, columns, counts) ==
    LET cnt == filled_counts(d, grps, columns, counts)
    IN  mask_rows(d, [i \in DOMAIN d.rows |->
            \E k \in DOMAIN grps : 2 * cnt[grps[k]][i] >= threshold_x2(d, grps)])

(* reorder_columns: df[['Majority protein IDs'] + merged]                  *)
reorder_columns(d, organs, organ_to_columns) ==
    LET merged == Flatten([k \in DOMAIN organs |-> organ_to_columns[organs[k]]])
    IN  [columns |-> merged,
         index_type |-> d.index_type,
         rows |-> [i \in DOMAIN d.rows |->
                     [d.rows[i] EXCEPT !.cells = row_values(d, i, merged)]]]

(* log2_normalize: np.log2 on every cell of df.iloc[:, 1:], then +-inf     *)
(* replaced by NaN                                                         *)
log2_normalize(d) ==
    with_cells(d, [i \in DOMAIN d.rows |-> [j \in DOMAIN d.columns |->
        LET v == log2(d.rows[i].cells[j])
        IN  IF isinf(v) THEN NaN ELSE v]])

\* quants.median(): the median of every numeric column
column_medians(d) == [j \in DOMAIN d.columns |-> median(column_values(d, j))]

(* median_normalize: every cell divided by its column's median and         *)
(* multiplied by the median of the medians                                 *)
median_normalize(d) ==
    LET medians == column_medians(d)
        median_of_medians == median(medians)
    IN  with_cells(d, [i \in DOMAIN d.rows |-> [j \in DOMAIN d.columns |->
            mul(truediv(d.rows[i].cells[j], medians[j]), median_of_medians)]])

\* df.iloc[:, 1:].min().min()
df_min(d) == nanmin([j \in DOMAIN d.columns |-> nanmin(column_values(d, j))])

\* impute_missing filling with the minimum itself, not half of it
impute_missing_not_halved(d) ==
    with_cells(d, [i \in DOMAIN d.rows |-> [j \in DOMAIN d.columns |->
        IF isnan(d.rows[i].cells[j]) THEN df_min(d) ELSE d.rows[i].cells[j]]])

(* impute_missing: a new dataframe, NaN replaced by df_min / 2.  The       *)
(* identity column holds no NaN here: remove_dup_proteinIDs drops them.    *)
impute_missing(d) ==
    LET impute_val == truediv(df_min(d), Float(2))
    IN  with_cells(d, [i \in DOMAIN d.rows |-> [j \in DOMAIN d.columns |->
            IF isnan(d.rows[i].cells[j]) THEN impute_val ELSE d.rows[i].cells[j]]])

(* do_pca: the identity column becomes the index, when the index is still  *)
(* the integer one; the numeric columns then start at column 0             *)
do_pca(d) ==
    IF d.index_type = "Int64Index"
    THEN [columns |-> d.columns,
          index_type |-> "Index",
          rows |-> [i \in DOMAIN d.rows |->
                      [d.rows[i] EXCEPT !.index = d.rows[i].id]]]
    ELSE d

-----------------------------------------------------------------------------
(* The one-way ANOVA of scipy.stats, as filter_proteins_by_anova calls it. *)

\* df.iloc[i, lo:hi] of a dataframe whose identity column is the index
iloc(d, i, lo, hi) == Slice(d.rows[i].cells, lo, hi)

\* the five samples line 441-445 hands to stats.f_oneway for row i
anova_args(d, i) ==
    <<iloc(d, i, 0, 6), iloc(d, i, 6, 12), iloc(d, i, 12, 18),
      iloc(d, i, 18, 24), iloc(d, i, 24, 30)>>

square_of_sums(a) == mul(fsum(a), fsum(a))
sum_of_squares(a) == fsum([k \in DOMAIN a |-> mul(a[k], a[k])])

\* stats.f_oneway: the F statistic and its degrees of freedom.  An empty
\* sample divides 0 by 0 and makes the statistic NaN.
f_oneway(args) ==
    LET num_groups == Len(args)
        raw == Flatten(args)
        bign == Len(raw)
        offset == truediv(fsum(raw), Float(bign))
        shift(a) == [k \in DOMAIN a |-> sub(a[k], offset)]
        alldata == shift(raw)
        correction == truediv(square_of_sums(alldata), Float(bign))
        sstot == sub(sum_of_squares(alldata), correction)
        ssbn == sub(fsum([g \in DOMAIN args |->
                        truediv(square_of_sums(shift(args[g])),
                                Float(Len(args[g])))]),
                    correction)
        sswn == sub(sstot, ssbn)
        dfbn == num_groups - 1
        dfwn == bign - num_groups
        msb == truediv(ssbn, Float(dfbn))
        msw == truediv(sswn, Float(dfwn))
    IN  [statistic |-> truediv(msb, msw), dfbn |-> dfbn, dfwn |-> dfwn]

\* the upper critical value of the F distribution with 4 and dfwn degrees
\* of freedom at level max_pval (in hundredths), to three decimals
FCritical(max_pval, dfwn) ==
    LET table == [q \in {1, 5} |->
            IF q = 5
            THEN [n \in 20..25 |-> <<2866, 2840, 2817, 2796, 2776, 2759>>[n - 19]]
            ELSE [n \in 20..25 |-> <<4431, 4369, 4313, 4264, 4218, 4177>>[n - 19]]]
    IN  Norm(table[max_pval][dfwn], 1000)

\* p <= max_pval for p = fdtrc(dfbn, dfwn, f), the survival function of the
\* F distribution: False for a NaN p, True for p = 0 (f infinite), and
\* otherwise f >= the critical value of max_pval
pvalue_le(r, max_pval) ==
    /\ ~isnan(r.statistic)
    /\ r.dfbn >= 1 /\ r.dfwn >= 1
    /\ ge(r.statistic, Float(0))
    /\ \/ r.statistic = PosInf
       \/ ge(r.statistic, FCritical(max_pval, r.dfwn))

\* the list pass_anova the loop of filter_proteins_by_anova builds
pass_anova(d, max_pval) ==
    LET proteins == [i \in DOMAIN d.rows |-> d.rows[i].index]
    IN  Keep(proteins, [i \in DOMAIN d.rows |->
            pvalue_le(f_oneway(anova_args(d, i)), max_pval)])

(* filter_proteins_by_anova: df[df.index.isin(pass_anova)]                 *)
filter_proteins_by_anova(d, max_pval) ==
    mask_rows(d, [i \in DOMAIN d.rows |->
        d.rows[i].index \in Range(pass_anova(d, max_pval))])

-----------------------------------------------------------------------------
(* The inputs: proteinGroups tables as load_df returns them, and the       *)
(* ordered group lists the caller passes.  A group list has at least one  *)
(* name, and column names are pairwise distinct (read_csv renames          *)
(* repeats).                                                               *)

GroupA == <<"A">>
GroupB == <<"B">>
\* a group name no column carries
GroupC == <<"C">>

ProteinNames == <<"P1", "P2", "P3", "P4">>

\* the tables with n rows drawn from Rows, labelled 0 .. n-1 by read_csv
TablesOf(columns, Rows, n) ==
    {[columns |-> columns,
      index_type |-> "RangeIndex",
      rows |-> [i \in 1..n |-> [index |-> i - 1] @@ f[i]]] :
        f \in [1..n -> Rows]}

\* flags and identities vary; one sample column, a column of another
\* metric and an iBAQ column of no group, with fixed abundances
QualityColumns ==
    <<<<"LFQ intensity ", "A", "1">>, <<IBAQ, "peptides">>, <<IBAQ, "A", "1">>>>
\* (Only identified by site, Reverse, Potential contaminant)
FlagPatterns ==
    {<<NA, NA, NA>>, <<"+", NA, NA>>, <<NA, "+", NA>>, <<NA, NA, "+">>,
     <<"+", "+", "+">>}
QualityRows ==
    {[site |-> f[1], Reverse |-> f[2], contaminant |-> f[3], id |-> id,
      cells |-> <<Float(4), Float(1), Float(2)>>] :
        f \in FlagPatterns,
        id \in {<<"P1">>, <<"P2">>, <<"P1", ";", "P2">>, MissingID}}
QualityInputs ==
    {[table |-> t, groups |-> <<GroupA>>] :
        t \in UNION {TablesOf(QualityColumns, QualityRows, n) : n \in 0..MaxRowsQ}}

\* detection patterns vary: three columns of group A and one of group B,
\* every cell either 0 (not detected) or 2
DetectionColumns ==
    <<<<IBAQ, "A", "1">>, <<IBAQ, "A", "2">>, <<IBAQ, "A", "3">>, <<IBAQ, "B", "1">>>>
UnflaggedTables(columns, Values, n) ==
    {[columns |-> columns,
      index_type |-> "RangeIndex",
      rows |-> [i \in 1..n |->
                  [index |-> i - 1, site |-> NA, Reverse |-> NA,
                   contaminant |-> NA, id |-> <<ProteinNames[i]>>,
                   cells |-> f[i]]]] :
        f \in [1..n -> [DOMAIN columns -> Values]]}
DetectionGroupLists ==
    {<<GroupA, GroupB>>, <<GroupB, GroupA>>, <<GroupA>>,
     <<GroupA, GroupC>>, <<GroupC, GroupA>>}
DetectionInputs ==
    {[table |-> t, groups |-> g] :
        t \in UNION {UnflaggedTables(DetectionColumns, {Float(0), Float(2)}, n) :
                        n \in 0..MaxRowsD},
        g \in DetectionGroupLists}

\* abundances vary: one column of group A and one of group B
NumericColumns == <<<<IBAQ, "A", "1">>, <<IBAQ, "B", "1">>>>
RawValues == {Float(0), <<1, 2>>, Float(1), Float(4)}
NumericInputs ==
    {[table |-> t, groups |-> <<GroupA, GroupB>>] :
        t \in UNION {UnflaggedTables(NumericColumns, RawValues, n) :
                        n \in 0..MaxRowsN}}

\* no column carries the prefix 'iBAQ '
NoSampleColumns == <<<<"LFQ intensity ", "A", "1">>>>
NoSampleInputs ==
    {[table |-> t, groups |-> <<GroupA>>] :
        t \in UNION {UnflaggedTables(NoSampleColumns, {Float(2)}, n) : n \in 0..1}}

Inputs == QualityInputs \cup DetectionInputs \cup NumericInputs \cup NoSampleInputs

-----------------------------------------------------------------------------
(* mq_pipeline, one action per statement that changes its state.  file is  *)
(* the table as load_df read it (line 520); nothing writes it.             *)

\* line 553
PVAL == 5

Init ==
    \E in \in Inputs :
        /\ pc = "clean"
        /\ file = in.table
        /\ df = in.table
        /\ groups = in.groups
        /\ iBAQ_df = EmptyDF
        /\ organ_columns = EmptyDict
        /\ organ_counts = EmptyDict
        /\ boxplots = <<>>
        /\ imputed_iBAQ_df = EmptyDF
        /\ anova_calls = <<>>
        /\ pass_anova_df = EmptyDF
        /\ pval = 0
        /\ returned = EmptyDF

\* line 521
CleanStep ==
    /\ pc = "clean"
    /\ df' = clean_weakly_identified(df)
    /\ pc' = "dedup"
    /\ UNCHANGED <<file, groups, iBAQ_df, organ_columns, organ_counts, boxplots,
                   imputed_iBAQ_df, anova_calls, pass_anova_df, pval, returned>>

\* line 522
DedupStep ==
    /\ pc = "dedup"
    /\ df' = remove_dup_proteinIDs(df)
    /\ pc' = "slice"
    /\ UNCHANGED <<file, groups, iBAQ_df, organ_columns, organ_counts, boxplots,
                   imputed_iBAQ_df, anova_calls, pass_anova_df, pval, returned>>

\* lines 524-528
SliceStep ==
    /\ pc = "slice"
    /\ iBAQ_df' = slice_by_column(df, "protein", IBAQ)
    /\ organ_columns' = EmptyDict
    /\ organ_counts' = EmptyDict
    /\ pc' = "filter"
    /\ UNCHANGED <<file, df, groups, boxplots, imputed_iBAQ_df, anova_calls,
                   pass_anova_df, pval, returned>>

\* lines 530-531: the two dictionaries are filled in place, the filtered
\* dataframe replaces iBAQ_df and is handed to make_boxplot
FilterStep ==
    /\ pc = "filter"
    /\ organ_columns' = filled_columns(iBAQ_df, groups, organ_columns)
    /\ organ_counts' = filled_counts(iBAQ_df, groups, organ_columns, organ_counts)
    /\ iBAQ_df' = filter_low_observed(iBAQ_df, groups, organ_columns, organ_counts)
    /\ boxplots' = Append(boxplots, iBAQ_df')
    /\ pc' = "reorder"
    /\ UNCHANGED <<file, df, groups, imputed_iBAQ_df, anova_calls, pass_anova_df,
                   pval, returned>>

\* line 534
ReorderStep ==
    /\ pc = "reorder"
    /\ iBAQ_df' = reorder_columns(iBAQ_df, groups, organ_columns)
    /\ pc' = "log2"
    /\ UNCHANGED <<file, df, groups, organ_columns, organ_counts, boxplots,
                   imputed_iBAQ_df, anova_calls, pass_anova_df, pval, returned>>

\* lines 537-539: in place, then the boxplot of the transformed dataframe
Log2Step ==
    /\ pc = "log2"
    /\ iBAQ_df' = log2_normalize(iBAQ_df)
    /\ boxplots' = Append(boxplots, iBAQ_df')
    /\ pc' = "median"
    /\ UNCHANGED <<file, df, groups, organ_columns, organ_counts, imputed_iBAQ_df,
                   anova_calls, pass_anova_df, pval, returned>>

\* lines 540-541: in place, then the boxplot of the normalised dataframe
MedianStep ==
    /\ pc = "median"
    /\ iBAQ_df' = median_normalize(iBAQ_df)
    /\ boxplots' = Append(boxplots, iBAQ_df')
    /\ pc' = "impute"
    /\ UNCHANGED <<file, df, groups, organ_columns, organ_counts, imputed_iBAQ_df,
                   anova_calls, pass_anova_df, pval, returned>>

\* line 544 without the copy, impute_missing filling its argument in place
ImputeStepInPlace ==
    /\ pc = "impute"
    /\ iBAQ_df' = impute_missing(iBAQ_df)
    /\ imputed_iBAQ_df' = iBAQ_df'
    /\ pc' = "pca"
    /\ UNCHANGED <<file, df, groups, organ_columns, organ_counts, boxplots,
                   anova_calls, pass_anova_df, pval, returned>>

\* line 544: impute_missing is given a copy and returns a new dataframe
ImputeStep ==
    /\ pc = "impute"
    /\ imputed_iBAQ_df' = impute_missing(iBAQ_df)
    /\ pc' = "pca"
    /\ UNCHANGED <<file, df, groups, iBAQ_df, organ_columns, organ_counts, boxplots,
                   anova_calls, pass_anova_df, pval, returned>>

\* lines 545-551: do_pca changes the index of the imputed dataframe in
\* place; the plots that follow read it
PcaStep ==
    /\ pc = "pca"
    /\ imputed_iBAQ_df' = do_pca(imputed_iBAQ_df)
    /\ pc' = "anova"
    /\ UNCHANGED <<file, df, groups, iBAQ_df, organ_columns, organ_counts, boxplots,
                   anova_calls, pass_anova_df, pval, returned>>

\* lines 553-554
AnovaStep ==
    /\ pc = "anova"
    /\ pval' = PVAL
    /\ anova_calls' = [i \in DOMAIN imputed_iBAQ_df.rows |->
                          anova_args(imputed_iBAQ_df, i)]
    /\ pass_anova_df' = filter_proteins_by_anova(imputed_iBAQ_df, PVAL)
    /\ pc' = "return"
    /\ UNCHANGED <<file, df, groups, iBAQ_df, organ_columns, organ_counts, boxplots,
                   imputed_iBAQ_df, returned>>

\* lines 555-557: protein_heatmap returns, and so does mq_pipeline
ReturnStep ==
    /\ pc = "return"
    /\ returned' = iBAQ_df
    /\ pc' = "done"
    /\ UNCHANGED <<file, df, groups, iBAQ_df, organ_columns, organ_counts, boxplots,
                   imputed_iBAQ_df, anova_calls, pass_anova_df, pval>>

\* a plotting or decomposition call raises and mq_pipeline ends without a
\* result: make_boxplot (line 531), make_seaborn_boxplot (539, 541), the
\* calls of lines 545-551 after do_pca has set the index, protein_heatmap
\* (555).  The libraries are not part of the source; whether they raise
\* is left open.
CollaboratorRaises ==
    /\ pc \in {"reorder", "median", "impute", "anova", "return"}
    /\ pc' = "raised"
    /\ UNCHANGED <<file, df, groups, iBAQ_df, organ_columns, organ_counts, boxplots,
                   imputed_iBAQ_df, anova_calls, pass_anova_df, pval, returned>>

Next ==
    \/ CleanStep
    \/ DedupStep
    \/ SliceStep
    \/ FilterStep
    \/ ReorderStep
    \/ Log2Step
    \/ MedianStep
    \/ ImputeStep
    \/ PcaStep
    \/ AnovaStep
    \/ ReturnStep
    \/ CollaboratorRaises

Spec == Init /\ [][Next]_vars

-----------------------------------------------------------------------------
(* filter_proteins_by_anova on its own: imputed matrices wide enough for   *)
(* the five samples of line 441-445 to be non-empty, indexed by identity.  *)

AnovaWidths == {24, 26, 30}
AnovaPatterns == {"constant", "separated", "noise", "strong", "weak", "medium"}

\* the abundance of column c (from 1) in a row of the given pattern; b is
\* the block of six columns c lies in
AnovaCell(pattern, c) ==
    LET b == (c - 1) \div 6
    IN  CASE pattern = "constant" -> Float(3)
          [] pattern = "separated" -> Float(b + 1)
          [] pattern = "noise" -> Float(c % 2)
          [] pattern = "strong" -> Float(10 * b + (c % 2))
          [] pattern = "weak" -> Float((c % 3) + (IF b = 0 THEN 1 ELSE 0))
          [] pattern = "medium" -> add(Float(c % 3), IF b = 0 THEN <<3, 2>> ELSE Float(0))

AnovaMatricesOf(n) ==
    {[columns |-> [c \in 1..w |-> <<IBAQ, "S", ToString(c)>>],
      index_type |-> "Index",
      rows |-> [i \in 1..n |->
                  [index |-> ids[i], id |-> ids[i],
                   cells |-> [c \in 1..w |-> AnovaCell(pats[i], c)]]]] :
        w \in AnovaWidths,
        ids \in [1..n -> {<<"P1">>, <<"P2">>}],
        pats \in [1..n -> AnovaPatterns]}
AnovaMatrices == UNION {AnovaMatricesOf(n) : n \in 0..MaxRowsA}

InitAnova ==
    \E m \in AnovaMatrices, q \in {1, 5} :
        /\ pc = "call"
        /\ file = EmptyDF
        /\ df = EmptyDF
        /\ groups = <<>>
        /\ iBAQ_df = EmptyDF
        /\ organ_columns = EmptyDict
        /\ organ_counts = EmptyDict
        /\ boxplots = <<>>
        /\ imputed_iBAQ_df = m
        /\ anova_calls = <<>>
        /\ pass_anova_df = EmptyDF
        /\ pval = q
        /\ returned = EmptyDF

\* filter_proteins_by_anova(df, pval)
CallAnova ==
    /\ pc = "call"
    /\ anova_calls' = [i \in DOMAIN imputed_iBAQ_df.rows |->
                          anova_args(imputed_iBAQ_df, i)]
    /\ pass_anova_df' = filter_proteins_by_anova(imputed_iBAQ_df, pval)
    /\ pc' = "called"
    /\ UNCHANGED <<file, df, groups, iBAQ_df, organ_columns, organ_counts, boxplots,
                   imputed_iBAQ_df, pval, returned>>

NextAnova == CallAnova

SpecAnova == InitAnova /\ [][NextAnova]_vars

-----------------------------------------------------------------------------
(* The claims.                                                             *)

\* the dataframe filter_low_observed is given: df is not written after
\* line 524
FilterInput == slice_by_column(df, "protein", IBAQ)

\* the numeric cells of d that are not missing
NonMissing(d) ==
    {d.rows[i].cells[j] : i \in DOMAIN d.rows, j \in DOMAIN d.columns} \ {NaN}

\* the identities of the rows of d are pairwise distinct
DistinctIDs(d) ==
    \A i, j \in DOMAIN d.rows : d.rows[i].id = d.rows[j].id => i = j

\* no identity of d contains the separator
NoSeparator(d) == \A i \in DOMAIN d.rows : ~Contains(d.rows[i].id, <<";">>)

\* every group of the list matched at least one column
NoEmptyGroup == \A k \in DOMAIN groups : organ_columns[groups[k]] # <<>>

\* C1: a row is in the output of filter_low_observed if and only if some
\* group has at least half of its own columns holding a value > 0 in that
\* row.  Stated for the mappings in which every group has a column: the
\* claim covers them, and they are the ones C8 lets through.
C1_DetectionRule ==
    (pc = "reorder" /\ NoEmptyGroup) =>
        \A i \in DOMAIN FilterInput.rows :
            (FilterInput.rows[i] \in Range(iBAQ_df.rows)) <=>
            (\E k \in DOMAIN groups :
                LET cols == organ_columns[groups[k]]
                IN  2 * count_positive(FilterInput, i, cols) >= Len(cols))

\* C2: after clean_weakly_identified and remove_dup_proteinIDs no row has
\* '+' in a flag column and no row has an identity containing ';'.
C2_NoFlaggedNoMultiID ==
    pc \notin {"clean", "dedup"} =>
        \A i \in DOMAIN df.rows :
            /\ df.rows[i].site # "+"
            /\ df.rows[i].Reverse # "+"
            /\ df.rows[i].contaminant # "+"
            /\ ~Contains(df.rows[i].id, <<";">>)

\* a file with a contaminant row and an unflagged multi-identity row went
\* through both filters, which dropped the two of them
C2_Witness ==
    /\ pc = "slice"
    /\ \E i, j \in DOMAIN file.rows :
        /\ file.rows[i].contaminant = "+"
        /\ ~Contains(file.rows[i].id, <<";">>)
        /\ file.rows[j].contaminant # "+" /\ file.rows[j].Reverse # "+"
        /\ file.rows[j].site # "+" /\ Contains(file.rows[j].id, <<";">>)
        /\ \A k \in DOMAIN df.rows : df.rows[k].index \notin {i - 1, j - 1}

\* C3: filter_proteins_by_anova compares, for every row, one block per
\* group of the mapping: the row's values in that group's columns.  Stated
\* for the mappings in which every group has a column.
C3_BlocksFollowGroups ==
    (pc \in {"return", "done"} /\ NoEmptyGroup) =>
        \A i \in DOMAIN imputed_iBAQ_df.rows :
            anova_calls[i] =
                [k \in DOMAIN groups |->
                    row_values(imputed_iBAQ_df, i, organ_columns[groups[k]])]

\* C4: the output of filter_proteins_by_anova is exactly the input rows
\* whose own p-value is defined and <= the threshold, in input order.
C4_OwnPValueDecides ==
    pc = "called" =>
        pass_anova_df.rows =
            Keep(imputed_iBAQ_df.rows,
                 [i \in DOMAIN imputed_iBAQ_df.rows |->
                     pvalue_le(f_oneway(anova_calls[i]), pval)])

\* C5: every cell missing before impute_missing is half the least
\* non-missing value afterwards, and every other cell keeps its value.
C5_ImputedHalfMinimum ==
    pc \in {"pca", "anova", "return", "done"} =>
        /\ DOMAIN imputed_iBAQ_df.rows = DOMAIN iBAQ_df.rows
        /\ \A i \in DOMAIN iBAQ_df.rows, j \in DOMAIN iBAQ_df.columns :
            LET before == iBAQ_df.rows[i].cells[j]
                after == imputed_iBAQ_df.rows[i].cells[j]
            IN  IF isnan(before)
                THEN \A m \in NonMissing(iBAQ_df) :
                        (\A x \in NonMissing(iBAQ_df) : le(m, x)) =>
                            after = truediv(m, Float(2))
                ELSE after = before

\* a missing cell was filled with half of a negative finite minimum while
\* a cell with a value kept it
C5_Witness ==
    /\ pc = "pca"
    /\ \E i \in DOMAIN iBAQ_df.rows, j \in DOMAIN iBAQ_df.columns :
        /\ isnan(iBAQ_df.rows[i].cells[j])
        /\ \E m \in NonMissing(iBAQ_df) :
            /\ \A x \in NonMissing(iBAQ_df) : le(m, x)
            /\ lt(m, Float(0)) /\ ~isinf(m)
            /\ imputed_iBAQ_df.rows[i].cells[j] = truediv(m, Float(2))
            /\ imputed_iBAQ_df.rows[i].cells[j] # m

\* C6: the matrix impute_missing returns has no missing value in a sample
\* column.
C6_NoMissingAfterImpute ==
    pc \in {"pca", "anova", "return", "done"} =>
        NaN \notin {imputed_iBAQ_df.rows[i].cells[j] :
                      i \in DOMAIN imputed_iBAQ_df.rows,
                      j \in DOMAIN imputed_iBAQ_df.columns}

\* C7: after median_normalize every sample column that had a value has the
\* median of the former column medians as its median, and every missing
\* cell is still missing.  boxplots[2] is the dataframe median_normalize
\* was given, as make_seaborn_boxplot saw it at line 539.
C7_CommonMedian ==
    pc = "impute" =>
        LET before == boxplots[2]
        IN  /\ \A j \in DOMAIN before.columns :
                dropna(column_values(before, j)) # <<>> =>
                    median(column_values(iBAQ_df, j)) =
                        median(column_medians(before))
            /\ \A i \in DOMAIN before.rows, j \in DOMAIN before.columns :
                isnan(before.rows[i].cells[j]) =>
                    isnan(iBAQ_df.rows[i].cells[j])

\* C8: with a group name that matches no column (or no sample column at
\* all) the pipeline ends in a configuration error before the detection
\* filter, and no group is ever mapped to an empty column list.
C8_EmptyGroupIsConfigError ==
    /\ (\E k \in DOMAIN groups : matching_columns(FilterInput, groups[k]) = <<>>)
            => pc \in {"clean", "dedup", "slice", "filter", "config_error"}
    /\ \A g \in DOMAIN organ_columns : organ_columns[g] # <<>>

\* C9: once both quality filters have run the identities are pairwise
\* distinct and hold no ';', and no later dataframe has a row the filters'
\* output lacks.
C9_UniqueIdentities ==
    LET Narrowed(d) ==
            /\ DistinctIDs(d)
            /\ NoSeparator(d)
            /\ {d.rows[i].id : i \in DOMAIN d.rows}
                    \subseteq {df.rows[i].id : i \in DOMAIN df.rows}
        SameLabels(d) ==
            {d.rows[i].index : i \in DOMAIN d.rows}
                \subseteq {df.rows[i].index : i \in DOMAIN df.rows}
    IN  pc \notin {"clean", "dedup"} =>
            /\ Narrowed(df)
            /\ Narrowed(iBAQ_df) /\ SameLabels(iBAQ_df)
            /\ Narrowed(imputed_iBAQ_df)
            /\ Narrowed(pass_anova_df)
            /\ Narrowed(returned) /\ SameLabels(returned)

\* C10: mq_pipeline returns the dataframe that was log2-transformed and
\* then median-normalised, its missing cells still missing; imputation,
\* do_pca and the ANOVA filter leave that dataframe as median_normalize
\* left it.  boxplots[1..3] are the dataframes the three boxplots were
\* drawn from (lines 531, 539, 541).
C10_ReturnsNormalisedUnimputed ==
    /\ pc \in {"pca", "anova", "return", "done"} =>
        /\ iBAQ_df = boxplots[3]
        /\ iBAQ_df = median_normalize(log2_normalize(
                        reorder_columns(boxplots[1], groups, organ_columns)))
    /\ pc = "done" =>
        /\ returned = boxplots[3]
        /\ returned.index_type = "Int64Index"
        /\ \A i \in DOMAIN returned.rows, j \in DOMAIN returned.columns :
            isnan(boxplots[2].rows[i].cells[j]) =>
                isnan(returned.rows[i].cells[j])

\* the pipeline returned a dataframe with a missing cell that the imputed
\* copy holds a value for, the copy being indexed by identity
C10_Witness ==
    /\ pc = "done"
    /\ imputed_iBAQ_df.index_type = "Index"
    /\ Len(returned.rows) >= 2
    /\ \E i \in DOMAIN returned.rows, j \in DOMAIN returned.columns :
        /\ isnan(returned.rows[i].cells[j])
        /\ ~isnan(imputed_iBAQ_df.rows[i].cells[j])
    /\ \E i \in DOMAIN returned.rows, j \in DOMAIN returned.columns :
        /\ ~isnan(returned.rows[i].cells[j])
        /\ returned.rows[i].cells[j] # log2_normalize(boxplots[1]).rows[i].cells[j]

=============================================================================
